---- MODULE Spec2Model ----
(***************************************************************************)
(* A model of kody (src/kody.py): the AI-mediated project mutation         *)
(* pipeline.  Text is a sequence of one-character strings; a path is text. *)
(* Python's None, dicts and lists are represented as tagged records.       *)
(***************************************************************************)
EXTENDS Integers, Sequences, FiniteSets, TLC

(***************************************************************************)
(* Characters and text helpers                                             *)
(***************************************************************************)
QUOTE == "\""
BSLASH == "\\"
NL == "\n"
\* The backquote character, which a TLA+ string literal cannot hold.
TICK == "BACKQUOTE"
SP == " "

RECURSIVE Cat(_)
\* Concatenation of a sequence of texts.
Cat(ss) == IF ss = <<>> THEN <<>> ELSE Head(ss) \o Cat(Tail(ss))

\* Whether pat occurs in s at (1-based) position i.
MatchAt(s, pat, i) ==
    /\ i >= 1
    /\ i + Len(pat) - 1 <= Len(s)
    /\ \A k \in 1..Len(pat) : s[i + k - 1] = pat[k]

\* The test "pat in s" of Python strings.
Contains(s, pat) == \E i \in 1..(Len(s) + 1) : MatchAt(s, pat, i)

\* str.find: the first position of pat at or after from, 0 when there is none
\* (Python: 0-based index, -1 when there is none).
Find(s, pat, from) ==
    LET hits == {i \in from..Len(s) : MatchAt(s, pat, i)}
    IN  IF hits = {} THEN 0 ELSE CHOOSE i \in hits : \A j \in hits : i <= j

\* str.rfind: the last position of pat, 0 when there is none.
RFind(s, pat) ==
    LET hits == {i \in 1..Len(s) : MatchAt(s, pat, i)}
    IN  IF hits = {} THEN 0 ELSE CHOOSE i \in hits : \A j \in hits : i >= j

RECURSIVE RemoveFrom(_, _, _)
\* s from position i on without the occurrences of pat.
RemoveFrom(s, pat, i) ==
    LET hit == Find(s, pat, i)
    IN  IF hit = 0 THEN SubSeq(s, i, Len(s))
        ELSE SubSeq(s, i, hit - 1) \o RemoveFrom(s, pat, hit + Len(pat))

\* re.sub(pat, "", s) for a literal pattern: every non-overlapping occurrence,
\* leftmost first, is deleted.
ReSubLiteral(s, pat) == RemoveFrom(s, pat, 1)

FENCE == <<TICK, TICK, TICK>>
FENCE_JSON == <<TICK, TICK, TICK, "j", "s", "o", "n">>

K_modifications == <<"m", "o", "d", "i", "f", "i", "c", "a", "t", "i", "o", "n", "s">>
K_creations == <<"c", "r", "e", "a", "t", "i", "o", "n", "s">>
K_filename == <<"f", "i", "l", "e", "n", "a", "m", "e">>
K_new_content == <<"n", "e", "w", "_", "c", "o", "n", "t", "e", "n", "t">>
K_content == <<"c", "o", "n", "t", "e", "n", "t">>
K_is_directory == <<"i", "s", "_", "d", "i", "r", "e", "c", "t", "o", "r", "y">>
T_true == <<"t", "r", "u", "e">>
T_false == <<"f", "a", "l", "s", "e">>
T_null == <<"n", "u", "l", "l">>

(***************************************************************************)
(* Python values: the decoded JSON document                                *)
(***************************************************************************)
JStr(s) == [t |-> "str", s |-> s]
JBool(b) == [t |-> "bool", b |-> b]
JNum(n) == [t |-> "num", n |-> n]
JNull == [t |-> "null"]
JArr(a) == [t |-> "arr", a |-> a]
\* A dict: its items in insertion order, each [k |-> key text, v |-> value].
JObj(o) == [t |-> "obj", o |-> o]
Item(k, v) == [k |-> k, v |-> v]

HasKey(d, k) == \E i \in 1..Len(d.o) : d.o[i].k = k

\* dict.get(key, default)
DictGet(d, k, default) ==
    IF HasKey(d, k)
    THEN d.o[CHOOSE i \in 1..Len(d.o) : d.o[i].k = k].v
    ELSE default

\* d[k] = v on a dict: a present key keeps its place, a new key goes last.
DictPut(o, k, v) ==
    IF \E i \in 1..Len(o) : o[i].k = k
    THEN [i \in 1..Len(o) |-> IF o[i].k = k THEN Item(k, v) ELSE o[i]]
    ELSE Append(o, Item(k, v))

(***************************************************************************)
(* json.dumps                                                              *)
(***************************************************************************)
\* The encoding of one character inside a JSON string (the characters the
\* model uses: quote, backslash, newline, tab and return are escaped, the rest is kept).
EscapeChar(c) ==
    IF c = QUOTE THEN <<BSLASH, QUOTE>>
    ELSE IF c = BSLASH THEN <<BSLASH, BSLASH>>
    ELSE IF c = NL THEN <<BSLASH, "n">>
    ELSE IF c = "\t" THEN <<BSLASH, "t">>
    ELSE IF c = "\r" THEN <<BSLASH, "r">>
    ELSE <<c>>

RECURSIVE EscapeText(_)
\* json.dumps(s)[1:-1]: the encodings of the characters of s, in order.
EscapeText(s) ==
    IF s = <<>> THEN <<>>
    ELSE IF Len(s) = 1 THEN EscapeChar(s[1])
    ELSE LET half == Len(s) \div 2
         IN  EscapeText(SubSeq(s, 1, half)) \o EscapeText(SubSeq(s, half + 1, Len(s)))

DigitChars == <<"0", "1", "2", "3", "4", "5", "6", "7", "8", "9">>
IsDigit(c) == \E k \in 1..10 : DigitChars[k] = c
DigitValue(c) == (CHOOSE k \in 1..10 : DigitChars[k] = c) - 1

RECURSIVE NumText(_)
\* The decimal text of a natural number.
NumText(n) == IF n < 10 THEN <<DigitChars[n + 1]>>
              ELSE NumText(n \div 10) \o <<DigitChars[(n % 10) + 1]>>

RECURSIVE Dumps(_), DumpsItems(_), DumpsElems(_)
\* json.dumps(v) with the default separators ", " and ": ".
Dumps(v) ==
    CASE v.t = "str" -> <<QUOTE>> \o EscapeText(v.s) \o <<QUOTE>>
      [] v.t = "bool" -> IF v.b THEN T_true ELSE T_false
      [] v.t = "null" -> T_null
      [] v.t = "num" -> NumText(v.n)
      [] v.t = "arr" -> <<"[">> \o DumpsElems(v.a) \o <<"]">>
      [] v.t = "obj" -> <<"{">> \o DumpsItems(v.o) \o <<"}">>

DumpsElems(a) ==
    IF a = <<>> THEN <<>>
    ELSE Dumps(Head(a)) \o (IF Len(a) > 1 THEN <<",", SP>> ELSE <<>>) \o DumpsElems(Tail(a))

DumpsItems(o) ==
    IF o = <<>> THEN <<>>
    ELSE <<QUOTE>> \o EscapeText(Head(o).k) \o <<QUOTE, ":", SP>> \o Dumps(Head(o).v)
         \o (IF Len(o) > 1 THEN <<",", SP>> ELSE <<>>) \o DumpsItems(Tail(o))

(***************************************************************************)
(* json.loads: the strict decoder                                          *)
(***************************************************************************)
IsSpace(c) == c \in {SP, NL, "\t", "\r"}
IsControl(c) == c \in {NL, "\t", "\r"}

RECURSIVE SkipWS(_, _)
SkipWS(s, i) == IF i <= Len(s) /\ IsSpace(s[i]) THEN SkipWS(s, i + 1) ELSE i

\* A decoding step: ok, the value decoded and the position after it.
Parsed(v, i) == [ok |-> TRUE, v |-> v, i |-> i]
ParseFail == [ok |-> FALSE, v |-> JNull, i |-> 0]

RECURSIVE ScanString(_, _, _)
\* The string whose opening quote precedes position i; acc is what was decoded
\* so far.  The characters up to the next quote, backslash or control
\* character are taken as they are; a raw control character, an unknown escape
\* and a missing closing quote are errors.
ScanString(s, i, acc) ==
    LET stops == {j \in i..Len(s) : s[j] \in {QUOTE, BSLASH} \/ IsControl(s[j])}
        p == CHOOSE j \in stops : \A x \in stops : j <= x
        run == acc \o SubSeq(s, i, p - 1)
    IN  IF stops = {} THEN ParseFail
        ELSE IF s[p] = QUOTE THEN Parsed(run, p + 1)
        ELSE IF s[p] = BSLASH THEN
            IF p + 1 > Len(s) THEN ParseFail
            ELSE IF s[p + 1] \in {QUOTE, BSLASH, "/"} THEN ScanString(s, p + 2, Append(run, s[p + 1]))
            ELSE IF s[p + 1] = "n" THEN ScanString(s, p + 2, Append(run, NL))
            ELSE IF s[p + 1] = "t" THEN ScanString(s, p + 2, Append(run, "\t"))
            ELSE IF s[p + 1] = "r" THEN ScanString(s, p + 2, Append(run, "\r"))
            ELSE ParseFail
        ELSE ParseFail

RECURSIVE ScanNumber(_, _, _)
ScanNumber(s, i, acc) ==
    IF i <= Len(s) /\ IsDigit(s[i]) THEN ScanNumber(s, i + 1, acc * 10 + DigitValue(s[i]))
    ELSE Parsed(JNum(acc), i)

RECURSIVE ScanValue(_, _), ScanElems(_, _, _), ScanItems(_, _, _)
\* The value that starts at position i (whitespace already skipped).
ScanValue(s, i) ==
    IF i > Len(s) THEN ParseFail
    ELSE IF s[i] = QUOTE THEN
        LET r == ScanString(s, i + 1, <<>>)
        IN  IF r.ok THEN Parsed(JStr(r.v), r.i) ELSE ParseFail
    ELSE IF s[i] = "{" THEN
        LET j == SkipWS(s, i + 1)
        IN  IF j <= Len(s) /\ s[j] = "}" THEN Parsed(JObj(<<>>), j + 1)
            ELSE ScanItems(s, j, <<>>)
    ELSE IF s[i] = "[" THEN
        LET j == SkipWS(s, i + 1)
        IN  IF j <= Len(s) /\ s[j] = "]" THEN Parsed(JArr(<<>>), j + 1)
            ELSE ScanElems(s, j, <<>>)
    ELSE IF MatchAt(s, T_true, i) THEN Parsed(JBool(TRUE), i + 4)
    ELSE IF MatchAt(s, T_false, i) THEN Parsed(JBool(FALSE), i + 5)
    ELSE IF MatchAt(s, T_null, i) THEN Parsed(JNull, i + 4)
    ELSE IF IsDigit(s[i]) THEN ScanNumber(s, i, 0)
    ELSE ParseFail

\* The elements of an array from position i on, up to its "]".
ScanElems(s, i, acc) ==
    LET r == ScanValue(s, i)
        j == SkipWS(s, r.i)
    IN  IF ~r.ok \/ j > Len(s) THEN ParseFail
        ELSE IF s[j] = "," THEN ScanElems(s, SkipWS(s, j + 1), Append(acc, r.v))
        ELSE IF s[j] = "]" THEN Parsed(JArr(Append(acc, r.v)), j + 1)
        ELSE ParseFail

\* The items of an object from position i on, up to its "}".
ScanItems(s, i, acc) ==
    IF i > Len(s) \/ s[i] # QUOTE THEN ParseFail
    ELSE
      LET k == ScanString(s, i + 1, <<>>)
          c == SkipWS(s, k.i)
      IN  IF ~k.ok \/ c > Len(s) \/ s[c] # ":" THEN ParseFail
          ELSE
            LET r == ScanValue(s, SkipWS(s, c + 1))
                j == SkipWS(s, r.i)
            IN  IF ~r.ok \/ j > Len(s) THEN ParseFail
                ELSE IF s[j] = "," THEN ScanItems(s, SkipWS(s, j + 1), DictPut(acc, k.v, r.v))
                ELSE IF s[j] = "}" THEN Parsed(JObj(DictPut(acc, k.v, r.v)), j + 1)
                ELSE ParseFail

\* json.loads(s): [ok |-> TRUE, v |-> the document], or ok = FALSE when
\* json.loads raises (no value, a malformed value, or text after the value).
JsonLoads(s) ==
    LET r == ScanValue(s, SkipWS(s, 1))
    IN  IF r.ok /\ SkipWS(s, r.i) > Len(s) THEN [ok |-> TRUE, v |-> r.v]
        ELSE [ok |-> FALSE, v |-> JNull]

(***************************************************************************)
(* JSON extraction and repair (extract_json, fix_json_fields,              *)
(* try_parse_json)                                                         *)
(***************************************************************************)
\* extract_json(response): None, or the text from the first "{" to the last
\* "}" of the response without its fence markers.
extract_json(response) ==
    LET r1 == ReSubLiteral(response, FENCE_JSON)
        r2 == ReSubLiteral(r1, FENCE)
        start == Find(r2, <<"{">>, 1)
        end == RFind(r2, <<"}">>)
    IN  IF start = 0 \/ end = 0 THEN [none |-> TRUE, s |-> <<>>]
        ELSE [none |-> FALSE, s |-> SubSeq(r2, start, end)]

\* The pattern rf'("{key}":\s*")(.*?)(")' matches at position i: the key in
\* quotes, a colon, optional whitespace, an opening quote and, somewhere after
\* it, a closing quote.
FixOpen(s, key, i) == SkipWS(s, i + Len(key) + 3)
FixClose(s, key, i) == Find(s, <<QUOTE>>, FixOpen(s, key, i) + 1)
FixMatches(s, key, i) ==
    /\ MatchAt(s, <<QUOTE>> \o key \o <<QUOTE, ":">>, i)
    /\ FixOpen(s, key, i) <= Len(s)
    /\ s[FixOpen(s, key, i)] = QUOTE
    /\ FixClose(s, key, i) # 0

RECURSIVE FixKey(_, _, _)
\* re.sub(rf'("{key}":\s*")(.*?)(")', replacer, json_str, flags=re.DOTALL)
\* from position i on: each match, leftmost first, has the text between its
\* two quotes (the shortest there is) replaced by json.dumps(text)[1:-1].
FixKey(s, key, i) ==
    LET hits == {k \in i..Len(s) : FixMatches(s, key, k)}
        m == CHOOSE k \in hits : \A j \in hits : k <= j
    IN  IF hits = {} THEN SubSeq(s, i, Len(s))
        ELSE SubSeq(s, i, FixOpen(s, key, m))
             \o EscapeText(SubSeq(s, FixOpen(s, key, m) + 1, FixClose(s, key, m) - 1))
             \o <<QUOTE>> \o FixKey(s, key, FixClose(s, key, m) + 1)

\* The default of fix_json_fields' parameter iterations.
FIX_ITERATIONS == 5

\* One pass of the loop body: the keys "new_content" and "content" in turn.
FixPass(s) == FixKey(FixKey(s, K_new_content, 1), K_content, 1)

RECURSIVE FixLoop(_, _, _, _)
\* The loop of fix_json_fields with n iterations left; first tells that
\* previous is still None.
FixLoop(s, previous, first, n) ==
    IF n = 0 THEN s
    ELSE IF ~first /\ s = previous THEN s
    ELSE FixLoop(FixPass(s), s, FALSE, n - 1)

fix_json_fields(json_str) == FixLoop(json_str, <<>>, TRUE, FIX_ITERATIONS)

\* try_parse_json(response) with demjson not installed (the ImportError
\* branch): [ok |-> TRUE, v |-> data], or ok = FALSE when it raises.
try_parse_json(response) ==
    LET json_str == extract_json(response)
    IN  IF json_str.none \/ json_str.s = <<>> THEN [ok |-> FALSE, v |-> JNull]
        ELSE LET strict == JsonLoads(json_str.s)
             IN  IF strict.ok THEN strict
                 ELSE JsonLoads(fix_json_fields(json_str.s))

(***************************************************************************)
(* Configuration and paths                                                 *)
(***************************************************************************)
IGNORED_EXTENSIONS ==
    { <<".", "j", "p", "g">>, <<".", "p", "n", "g">>, <<".", "g", "i", "f">>,
      <<".", "b", "m", "p">>, <<".", "m", "p", "3">>, <<".", "m", "p", "4">>,
      <<".", "z", "i", "p">>, <<".", "t", "a", "r">>, <<".", "g", "z">>,
      <<".", "p", "d", "f">>, <<".", "e", "x", "e">>, <<".", "b", "i", "n">> }
IGNORED_DIRS ==
    { <<"n", "o", "d", "e", "_", "m", "o", "d", "u", "l", "e", "s">>,
      <<"v", "e", "n", "d", "o", "r">>, <<"d", "i", "s", "t">>,
      <<"b", "u", "i", "l", "d">>, <<".", "v", "e", "n", "v">> }

\* Python's None and a present value.
None == [none |-> TRUE, s |-> <<>>]
Some(x) == [none |-> FALSE, s |-> x]

\* os.path.dirname(path): the text before the last "/", "" when there is none.
Dirname(path) ==
    LET k == RFind(path, <<"/">>)
    IN  IF k = 0 THEN <<>> ELSE SubSeq(path, 1, k - 1)

\* os.path.basename(path)
Basename(path) == SubSeq(path, RFind(path, <<"/">>) + 1, Len(path))

\* os.path.splitext(path)[1]: from the last "." of the base name on, when a
\* character other than "." precedes it there (the model's paths are lower
\* case, so .lower() changes nothing).
Splitext1(path) ==
    LET base == Basename(path)
        k == RFind(base, <<".">>)
    IN  IF k = 0 \/ \A j \in 1..(k - 1) : base[j] = "." THEN <<>>
        ELSE SubSeq(base, k, Len(base))

RECURSIVE Components(_)
\* path.split("/")
Components(path) ==
    LET k == Find(path, <<"/">>, 1)
    IN  IF k = 0 THEN <<path>>
        ELSE <<SubSeq(path, 1, k - 1)>> \o Components(SubSeq(path, k + 1, Len(path)))

RECURSIVE Climbs(_, _)
\* Whether walking the components from depth d below the root leaves the root.
Climbs(comps, d) ==
    IF comps = <<>> THEN FALSE
    ELSE IF Head(comps) = <<".", ".">> THEN (d = 0 \/ Climbs(Tail(comps), d - 1))
    ELSE IF Head(comps) \in {<<>>, <<".">>} THEN Climbs(Tail(comps), d)
    ELSE Climbs(Tail(comps), d + 1)

\* The path names a place inside the project root (the working directory).
InsideRoot(path) == path # <<>> /\ path[1] # "/" /\ ~Climbs(Components(path), 0)

\* The directories of the path, those os.walk would descend through.
PathDirs(path) == LET c == Components(path) IN {c[k] : k \in 1..(Len(c) - 1)}

(***************************************************************************)
(* The session: main(), ProjectContext and project_update                  *)
(***************************************************************************)
VARIABLES
    disk,         \* the filesystem: path -> content of the files that exist
    dirs,         \* the directories made so far (parents of files exist too)
    files,        \* ProjectContext.files, the index: path -> content
    session,      \* "running", "exited" (exit/quit) or "crashed" (uncaught exception)
    pc,           \* where the main thread is: "prompt" is main()'s input()
    updates,      \* project updates started so far
    target_file,  \* project_update: extract_target_file(instruction)
    data,         \* project_update: the decoded reply
    idx,          \* project_update: the position in the list being processed
    filename,     \* project_update: the entry's filename
    new_content,  \* project_update: the entry's new_content / content
    old_content,  \* project_update: the prior content
    confirm,      \* the answer last read at a confirmation prompt
    is_directory, \* project_update: the creation entry's is_directory
    warned,       \* the destructive-change warning was printed for the entry
    log           \* the entries handled in this update, with their outcome

mainVars == <<disk, dirs, files, session, pc, updates, target_file, data, idx,
              filename, new_content, old_content, is_directory, confirm, warned,
              log>>

\* Bounds of the model.
MaxUpdates == 2

P_a == <<"a", ".", "p", "y">>
P_nm == <<"n", "o", "d", "e", "_", "m", "o", "d", "u", "l", "e", "s", "/", "x", ".", "j", "s">>
P_up == <<".", ".", "/", "o", ".", "t", "x", "t">>
P_png == <<"i", ".", "p", "n", "g">>
P_sub == <<"d", "/", "n", ".", "p", "y">>
P_dir == <<"d">>

C_a == <<"a">>
C_b == <<"b">>
C_diff == <<"@", "@", "b">>
C_patched == <<"p">>

\* is_readable_file(filepath), for a file that exists and may be read.
is_readable_file(filepath) == Splitext1(filepath) \notin IGNORED_EXTENSIONS

\* scan_project() over the filesystem d: os.walk('.') reaches the files under
\* the root, pruning the ignored directories.
scan_project(d) ==
    LET kept == {f \in DOMAIN d : /\ InsideRoot(f)
                                  /\ PathDirs(f) \cap IGNORED_DIRS = {}
                                  /\ is_readable_file(f)}
    IN  [f \in kept |-> d[f]]

get_file_index_Reload(fs, d, f) ==
    IF f \in DOMAIN d THEN (f :> d[f]) @@ fs ELSE fs

\* ProjectContext.get_file(filename): the index afterwards ...
get_file_index(fs, d, f) ==
    IF f \notin DOMAIN fs /\ f \in DOMAIN d THEN (f :> d[f]) @@ fs ELSE fs

\* ... and the value returned.
get_file(fs, d, f) ==
    IF f \in DOMAIN fs THEN Some(fs[f])
    ELSE IF f \in DOMAIN d THEN Some(d[f])
    ELSE None

\* os.path.exists(path)
Exists(d, ds, path) ==
    \/ path \in DOMAIN d
    \/ path \in ds
    \/ \E f \in DOMAIN d \cup ds : MatchAt(f, path \o <<"/">>, 1)

\* The filter of extract_target_file over the texts its patterns capture, in
\* the order it examines them: the first that does not start with ".", "/" or
\* "http" and holds a ".".
Acceptable(match) ==
    /\ match # <<>>
    /\ match[1] \notin {".", "/"}
    /\ ~MatchAt(match, <<"h", "t", "t", "p">>, 1)
    /\ Contains(match, <<".">>)

extract_target_file(matches) ==
    LET ok == {k \in 1..Len(matches) : Acceptable(matches[k])}
    IN  IF ok = {} THEN None
        ELSE Some(matches[CHOOSE k \in ok : \A j \in ok : k <= j])

(***************************************************************************)
(* The backend's replies                                                   *)
(***************************************************************************)
ModEntry(f, c) == JObj(<<Item(K_filename, JStr(f)), Item(K_new_content, JStr(c))>>)
CreEntry(f, c, d) ==
    JObj(<<Item(K_filename, JStr(f)), Item(K_content, JStr(c)), Item(K_is_directory, JBool(d))>>)
EditPlan(m, c) == JObj(<<Item(K_modifications, JArr(m)), Item(K_creations, JArr(c))>>)

\* The plans the backend may answer with.
Plans ==
    { EditPlan(<<ModEntry(P_a, C_b), ModEntry(P_a, C_diff)>>, <<>>),
      EditPlan(<<ModEntry(P_a, C_diff), ModEntry(P_a, C_b)>>, <<>>),
      EditPlan(<<JObj(<<Item(K_filename, JStr(P_a))>>), ModEntry(P_nm, C_b)>>, <<>>),
      EditPlan(<<>>, <<CreEntry(P_dir, <<>>, TRUE), CreEntry(P_sub, C_b, FALSE)>>),
      EditPlan(<<ModEntry(P_a, C_b)>>, <<CreEntry(P_up, C_b, FALSE)>>),
      EditPlan(<<>>, <<JObj(<<Item(K_content, JStr(C_b))>>), CreEntry(P_png, C_b, FALSE)>>),
      JObj(<<>>) }

\* A plan as the backend writes it: prose, a fenced JSON block, prose.
Fenced(text) ==
    <<"O", "K", ":", NL>> \o FENCE_JSON \o <<NL>> \o text \o <<NL>> \o FENCE \o <<NL, "D", "o", "n", "e", ".">>

\* Replies that are no EditPlan: the backend's error text, a reply cut short,
\* and JSON of another shape.
R_error == <<"E", "r", "r", "o", "r", ":", SP, "x">>
R_cut == <<"{", QUOTE, "m", "o", "d", "i", "f", "i", "c", "a", "t", "i", "o", "n", "s", QUOTE, ":", SP, "[", "{", "}">>
R_null == Dumps(JObj(<<Item(K_modifications, JNull)>>))
R_entry == Dumps(EditPlan(<<ModEntry(P_a, C_b), JNum(1), ModEntry(P_a, C_a)>>, <<>>))
R_text == Dumps(JObj(<<Item(K_creations, JStr(<<"x">>))>>))
R_number == Dumps(EditPlan(<<JObj(<<Item(K_filename, JStr(P_a)), Item(K_new_content, JNum(7))>>)>>, <<>>))
\* A plan with a raw newline inside a "content" string.
R_raw == <<"{", QUOTE>> \o K_creations \o <<QUOTE, ":", SP, "[", "{", QUOTE>> \o K_filename
         \o <<QUOTE, ":", SP, QUOTE>> \o P_sub \o <<QUOTE, ",", SP, QUOTE>> \o K_content
         \o <<QUOTE, ":", SP, QUOTE, "a", NL, "b", QUOTE, "}", "]", "}">>

AiReplies ==
    {Fenced(Dumps(p)) : p \in Plans}
    \cup {R_error, R_cut, R_null, R_entry, R_text, R_number, R_raw}

\* Each reply with what try_parse_json makes of it.
Decoded == {[reply |-> r, parsed |-> try_parse_json(r)] : r \in AiReplies}

(***************************************************************************)
(* Python's view of a decoded value                                        *)
(***************************************************************************)
\* bool(v)
Truthy(v) ==
    CASE v.t = "str" -> v.s # <<>>
      [] v.t = "num" -> v.n # 0
      [] v.t = "bool" -> v.b
      [] v.t = "null" -> FALSE
      [] v.t = "arr" -> v.a # <<>>
      [] v.t = "obj" -> v.o # <<>>

\* "for x in v" raises TypeError unless v is a list, a str or a dict.
Iterable(v) == v.t \in {"arr", "str", "obj"}

\* What "for x in v" yields: the elements, the characters, the keys.
IterItems(v) ==
    CASE v.t = "arr" -> v.a
      [] v.t = "str" -> [k \in 1..Len(v.s) |-> JStr(<<v.s[k]>>)]
      [] v.t = "obj" -> [k \in 1..Len(v.o) |-> JStr(v.o[k].k)]

\* len(v) raises TypeError for None, a number and a bool.
HasLen(v) == v.t \in {"arr", "str", "obj"}

modifications == DictGet(data, K_modifications, JArr(<<>>))
creations == DictGet(data, K_creations, JArr(<<>>))

(***************************************************************************)
(* The external collaborators' outcomes                                    *)
(***************************************************************************)
\* The patch utility: it exits 0 having rewritten the file, or exits non-zero
\* having left the file alone or partly rewritten.
PatchOutcomes == {"applied", "rejected", "rejected_dirty"}
\* What the file may hold after the utility ran.
PatchResults == {C_patched}

\* The filesystem after apply_patch_with_system(f, patch_text).
PatchDisk(d, f, outcome, result) ==
    IF outcome = "applied" \/ (outcome = "rejected_dirty" /\ f \in DOMAIN d)
    THEN (f :> result) @@ d
    ELSE d

\* A commit: it succeeds, or os.makedirs, open or f.write raises.
WriteOutcomes == {"ok", "mkdir_error", "open_error", "write_error"}

\* The filesystem after the commit of content to f: written, or truncated by
\* open(f, "w") when f.write raises.
WriteDisk(d, f, content, outcome) ==
    IF outcome = "ok" THEN (f :> content) @@ d
    ELSE IF outcome = "write_error" THEN (f :> <<>>) @@ d
    ELSE d

CommitIndex_Always(fs, f, content, outcome) == (f :> content) @@ fs

\* The index after the commit: project_ctx.files[filename] = new_content is
\* reached only when nothing raised.
CommitIndex(fs, f, content, outcome) ==
    IF outcome = "ok" THEN (f :> content) @@ fs ELSE fs

\* The directories after the commit's os.makedirs(dir_name, exist_ok=True).
WriteDirs(ds, dir_name, needed, outcome) ==
    IF needed /\ outcome # "mkdir_error" THEN ds \cup {dir_name} ELSE ds

\* The directories after os.makedirs(filename, exist_ok=True) of a directory
\* entry.
MakeDirs(ds, f, outcome) == IF outcome = "ok" THEN ds \cup {f} ELSE ds

\* What became of an entry: "skipped", "patch_failed", "cancelled" (declined),
\* "committed" or "failed" (the write raised).
Handled(kind, i, f, outcome) == [kind |-> kind, i |-> i, filename |-> f, outcome |-> outcome]

(***************************************************************************)
(* main(): the command loop                                                *)
(***************************************************************************)
InitialDisks == UNION {[D -> {C_a}] : D \in SUBSET {P_a, P_nm}}

\* project_update's locals before it is called and after it returned.
NoLocals ==
    /\ target_file = None
    /\ data = JObj(<<>>)
    /\ idx = 1
    /\ filename = <<>>
    /\ new_content = JStr(<<>>)
    /\ old_content = <<>>
    /\ is_directory = FALSE
    /\ confirm = ""
    /\ warned = FALSE
    /\ log = <<>>

MainInit ==
    /\ disk \in InitialDisks
    /\ dirs = {}
    /\ files = scan_project(disk)
    /\ session = "running"
    /\ pc = "prompt"
    /\ updates = 0
    /\ NoLocals

locals == <<target_file, data, idx, filename, new_content, old_content, is_directory,
            confirm, warned, log>>

\* project_update returns to main()'s loop.
Return ==
    /\ pc' = "prompt"
    /\ target_file' = None
    /\ data' = JObj(<<>>)
    /\ idx' = 1
    /\ filename' = <<>>
    /\ new_content' = JStr(<<>>)
    /\ old_content' = <<>>
    /\ is_directory' = FALSE
    /\ confirm' = ""
    /\ warned' = FALSE
    /\ log' = <<>>

\* "project-refresh"
Refresh ==
    /\ session = "running" /\ pc = "prompt"
    /\ files' = scan_project(disk)
    /\ UNCHANGED <<disk, dirs, session, pc, updates, locals>>

\* "exit" / "quit"
Quit ==
    /\ session = "running" /\ pc = "prompt"
    /\ session' = "exited"
    /\ UNCHANGED <<disk, dirs, files, pc, updates, locals>>

\* An uncaught exception leaves project_update and main().
Crash ==
    /\ session' = "crashed"
    /\ UNCHANGED <<disk, dirs, files, pc, updates, locals>>

\* "project update <instruction>": the target file is identified and, when it
\* exists but was not scanned, loaded into the index.
UpdateBegin(matches) ==
    /\ session = "running" /\ pc = "prompt" /\ updates < MaxUpdates
    /\ updates' = updates + 1
    /\ target_file' = extract_target_file(matches)
    /\ files' = IF /\ ~target_file'.none
                   /\ target_file'.s \notin DOMAIN files
                   /\ Exists(disk, dirs, target_file'.s)
                THEN get_file_index(files, disk, target_file'.s)
                ELSE files
    /\ pc' = "call"
    /\ UNCHANGED <<disk, dirs, session, data, idx, filename, new_content, old_content,
                   is_directory, confirm, warned, log>>

\* The backend answers and try_parse_json decodes the answer; when it raises,
\* the failure is printed and project_update returns.
UpdateCall(d) ==
    /\ session = "running" /\ pc = "call"
    /\ IF d.parsed.ok
       THEN /\ data' = d.parsed.v
            /\ pc' = "mods"
            /\ UNCHANGED <<target_file, idx, filename, new_content, old_content,
                           is_directory, confirm, warned, log>>
       ELSE Return
    /\ UNCHANGED <<disk, dirs, files, session, updates>>

(***************************************************************************)
(* project_update: the modifications                                       *)
(***************************************************************************)
\* The entry is done: it is logged and the loop goes to the next one.
NextEntry(kind, f, outcome, back) ==
    /\ log' = Append(log, Handled(kind, idx, f, outcome))
    /\ idx' = idx + 1
    /\ pc' = back

\* "for mod in modifications": the next entry is taken; an entry without a
\* filename or new_content is skipped, otherwise its prior content is looked up.
ModBegin ==
    /\ session = "running" /\ pc = "mods"
    /\ IF ~Iterable(modifications) THEN Crash
       ELSE IF idx > Len(IterItems(modifications))
       THEN /\ pc' = "cres"
            /\ idx' = 1
            /\ UNCHANGED <<disk, dirs, files, session, updates, target_file, data, filename,
                           new_content, old_content, is_directory, confirm, warned, log>>
       ELSE LET mod == IterItems(modifications)[idx]
                fn == DictGet(mod, K_filename, JNull)
                nc == DictGet(mod, K_new_content, JNull)
            IN  IF mod.t # "obj" THEN Crash
                ELSE IF ~Truthy(fn) \/ nc.t = "null"
                THEN /\ NextEntry("mod", IF fn.t = "str" THEN fn.s ELSE <<>>, "skipped", "mods")
                     /\ UNCHANGED <<disk, dirs, files, session, updates, target_file, data,
                                    filename, new_content, old_content, is_directory,
                                    confirm, warned>>
                ELSE /\ filename' = fn.s
                     /\ new_content' = nc
                     /\ old_content' = LET got == get_file(files, disk, fn.s)
                                       IN  IF got.none THEN <<>> ELSE got.s
                     /\ files' = get_file_index(files, disk, fn.s)
                     /\ pc' = "mod_route"
                     /\ UNCHANGED <<disk, dirs, session, updates, target_file, data, idx,
                                    is_directory, confirm, warned, log>>

\* The "continue" after a failed patch, at entry i of n: the loop goes on with
\* the next entry.
AfterPatchFailure_Break(i, n) == n + 1
AfterPatchFailure(i, n) == i + 1

Destructive_AtMostHalf(old, new) == old # <<>> /\ Len(old) >= 100 /\ 2 * Len(new) <= Len(old)

\* The safety check for destructive changes.
Destructive(old, new) == old # <<>> /\ Len(old) > 100 /\ 2 * Len(new) < Len(old)

\* A new_content holding "@@" is applied by the patch utility and replaced by
\* the patched file; then the change is previewed and the safety check made.
ModRoute ==
    /\ session = "running" /\ pc = "mod_route"
    /\ IF new_content.t # "str" THEN Crash
       ELSE IF Contains(new_content.s, <<"@", "@">>)
       THEN \E outcome \in PatchOutcomes, result \in PatchResults :
              /\ disk' = PatchDisk(disk, filename, outcome, result)
              /\ IF outcome = "applied"
                 THEN /\ new_content' = JStr(disk'[filename])
                      /\ warned' = Destructive(old_content, disk'[filename])
                      /\ pc' = "mod_confirm"
                      /\ UNCHANGED <<idx, log>>
                 ELSE /\ log' = Append(log, Handled("mod", idx, filename, "patch_failed"))
                      /\ idx' = AfterPatchFailure(idx, Len(IterItems(modifications)))
                      /\ pc' = "mods"
                      /\ UNCHANGED <<new_content, warned>>
              /\ UNCHANGED <<dirs, files, session, updates, target_file, data, filename,
                             old_content, is_directory, confirm>>
       ELSE /\ warned' = Destructive(old_content, new_content.s)
            /\ pc' = "mod_confirm"
            /\ UNCHANGED <<disk, dirs, files, session, updates, target_file, data, idx,
                           filename, new_content, old_content, is_directory, confirm, log>>

\* The answer at "Apply these changes to <filename>? (y/n)".
ModConfirm(answer) ==
    /\ session = "running" /\ pc = "mod_confirm"
    /\ confirm' = answer
    /\ IF answer = "y"
       THEN \E outcome \in WriteOutcomes :
              LET dir_name == Dirname(filename)
                  needed == dir_name # <<>> /\ ~Exists(disk, dirs, dir_name)
              IN  /\ outcome = "mkdir_error" => needed
                  /\ dirs' = WriteDirs(dirs, dir_name, needed, outcome)
                  /\ disk' = WriteDisk(disk, filename, new_content.s, outcome)
                  /\ files' = CommitIndex(files, filename, new_content.s, outcome)
                  /\ NextEntry("mod", filename,
                               IF outcome = "ok" THEN "committed" ELSE "failed", "mods")
       ELSE /\ NextEntry("mod", filename, "cancelled", "mods")
            /\ UNCHANGED <<disk, dirs, files>>
    /\ UNCHANGED <<session, updates, target_file, data, filename, new_content, old_content,
                   is_directory, warned>>

(***************************************************************************)
(* project_update: the creations                                           *)
(***************************************************************************)
\* "for creation in creations": the next entry is taken and previewed; after
\* the last one project_update returns.
CreBegin ==
    /\ session = "running" /\ pc = "cres"
    /\ IF ~Iterable(creations) THEN Crash
       ELSE IF idx > Len(IterItems(creations))
       THEN /\ Return
            /\ UNCHANGED <<disk, dirs, files, session, updates>>
       ELSE LET creation == IterItems(creations)[idx]
                fn == DictGet(creation, K_filename, JNull)
                content == DictGet(creation, K_content, JStr(<<>>))
                isdir == DictGet(creation, K_is_directory, JBool(FALSE))
            IN  IF creation.t # "obj" THEN Crash
                ELSE IF ~Truthy(fn)
                THEN /\ NextEntry("cre", <<>>, "skipped", "cres")
                     /\ UNCHANGED <<disk, dirs, files, session, updates, target_file, data,
                                    filename, new_content, old_content, is_directory,
                                    confirm, warned>>
                ELSE IF ~Truthy(isdir) /\ ~HasLen(content) THEN Crash
                ELSE /\ filename' = fn.s
                     /\ new_content' = content
                     /\ is_directory' = Truthy(isdir)
                     /\ pc' = "cre_confirm"
                     /\ UNCHANGED <<disk, dirs, files, session, updates, target_file, data,
                                    idx, old_content, confirm, warned, log>>

\* The answer at "Create directory <filename>? (y/n)" or "Create file
\* <filename>? (y/n)".
CreConfirm(answer) ==
    /\ session = "running" /\ pc = "cre_confirm"
    /\ confirm' = answer
    /\ IF answer # "y"
       THEN /\ NextEntry("cre", filename, "cancelled", "cres")
            /\ UNCHANGED <<disk, dirs, files>>
       ELSE IF is_directory
       THEN \E outcome \in {"ok", "mkdir_error"} :
              /\ dirs' = MakeDirs(dirs, filename, outcome)
              /\ NextEntry("cre", filename,
                           IF outcome = "ok" THEN "committed" ELSE "failed", "cres")
              /\ UNCHANGED <<disk, files>>
       ELSE \E outcome \in WriteOutcomes :
              LET dir_name == Dirname(filename)
                  needed == dir_name # <<>>
              IN  /\ outcome = "mkdir_error" => needed
                  /\ dirs' = WriteDirs(dirs, dir_name, needed, outcome)
                  /\ disk' = WriteDisk(disk, filename, new_content.s, outcome)
                  /\ files' = CommitIndex(files, filename, new_content.s, outcome)
                  /\ NextEntry("cre", filename,
                               IF outcome = "ok" THEN "committed" ELSE "failed", "cres")
    /\ UNCHANGED <<session, updates, target_file, data, filename, new_content, old_content,
                   is_directory, warned>>

\* The texts the instruction's patterns may capture, in the order examined.
Matches == {<<>>, <<P_nm>>, <<P_up, P_a>>}
Answers == {"y", "n"}

(***************************************************************************)
(* The relevance selector: truncate_content and filter_relevant_files      *)
(***************************************************************************)
MAX_FILE_CONTENT_CHARS == 4000
MAX_FILES_IN_CONTEXT == 10
MAX_CONTEXT_CHARS == 25000

\* "\n\n...[middle content omitted]...\n\n"
OMITTED_MARKER ==
    <<NL, NL, ".", ".", ".", "[", "m", "i", "d", "d", "l", "e", SP, "c", "o", "n", "t", "e",
      "n", "t", SP, "o", "m", "i", "t", "t", "e", "d", "]", ".", ".", ".", NL, NL>>

\* truncate_content(content, limit); content[-half:] is the whole content
\* when half is 0.
truncate_content(content, limit) ==
    IF Len(content) <= limit THEN content
    ELSE LET half == limit \div 2
         IN  SubSeq(content, 1, half) \o OMITTED_MARKER
             \o (IF half = 0 THEN content
                 ELSE SubSeq(content, Len(content) - half + 1, Len(content)))

RECURSIVE Words(_, _)
\* s.split() from position i on: the maximal runs without whitespace.
Words(s, i) ==
    LET b == SkipWS(s, i)
        ends == {j \in b..Len(s) : IsSpace(s[j])}
        e == IF ends = {} THEN Len(s) + 1 ELSE CHOOSE j \in ends : \A x \in ends : j <= x
    IN  IF b > Len(s) THEN <<>> ELSE <<SubSeq(s, b, e - 1)>> \o Words(s, e)

UPPER == <<"A", "B", "C", "D", "E", "F", "G", "H", "I", "J", "K", "L", "M",
           "N", "O", "P", "Q", "R", "S", "T", "U", "V", "W", "X", "Y", "Z">>
LOWER == <<"a", "b", "c", "d", "e", "f", "g", "h", "i", "j", "k", "l", "m",
           "n", "o", "p", "q", "r", "s", "t", "u", "v", "w", "x", "y", "z">>

\* str.lower(): the capital letters are replaced by their small letters.
LowerChar(c) ==
    IF \E k \in 1..26 : UPPER[k] = c THEN LOWER[CHOOSE k \in 1..26 : UPPER[k] = c] ELSE c
Lower(s) == [i \in 1..Len(s) |-> LowerChar(s[i])]

\* The words of instruction.lower() that start with "." and are shorter
\* than 6.
potential_exts(instruction) ==
    LET words == Words(Lower(instruction), 1)
    IN  {words[k] : k \in {j \in 1..Len(words) : words[j][1] = "." /\ Len(words[j]) < 6}}

Min(a, b) == IF a <= b THEN a ELSE b

\* The relevance score of a file.
FileScore(name, content, instruction) ==
    (IF Lower(Splitext1(name)) \in potential_exts(instruction) THEN 5 ELSE 0)
    + (IF Contains(Lower(instruction), Lower(Basename(name))) THEN 10 ELSE 0)
    - Min(5, Len(content) \div 5000)

KeysOf(d) == {d[k].k : k \in 1..Len(d)}

Candidates_All(project_files, relevant_files) == {k \in 1..Len(project_files) : TRUE}

\* The files that are scored: those not yet in relevant_files (the target).
Candidates(project_files, relevant_files) ==
    {k \in 1..Len(project_files) : project_files[k].k \notin KeysOf(relevant_files)}

\* The scored files in the order of the dict, unsorted.
SortedFiles_DictOrder(project_files, cands, instruction) ==
    [r \in 1..Cardinality(cands) |->
        CHOOSE k \in cands : Cardinality({j \in cands : j < k}) = r - 1]

RECURSIVE FileScores(_, _, _)
\* The scores of the files from the k-th on, in the order of the dict.
FileScores(project_files, instruction, k) ==
    IF k > Len(project_files) THEN <<>>
    ELSE <<FileScore(project_files[k].k, project_files[k].v, instruction)>>
         \o FileScores(project_files, instruction, k + 1)

\* The files of file_scores by score, highest first, files of equal score in
\* the order of the dict (sorted() is stable).
RankOrder(cands, file_scores) ==
    [r \in 1..Cardinality(cands) |->
        CHOOSE k \in cands :
            Cardinality({j \in cands : \/ file_scores[j] > file_scores[k]
                                       \/ (file_scores[j] = file_scores[k] /\ j < k)}) = r - 1]

\* sorted(file_scores.items(), key=score, reverse=True)
SortedFiles(project_files, cands, instruction) ==
    RankOrder(cands, FileScores(project_files, instruction, 1))

RECURSIVE TotalChars(_)
\* sum(len(content) for content in d.values())
TotalChars(d) == IF d = <<>> THEN 0 ELSE Len(Head(d).v) + TotalChars(Tail(d))

RECURSIVE AddFiles(_, _, _, _)
\* The loop over sorted_files[:files_to_add]: it stops once total_chars
\* exceeds MAX_CONTEXT_CHARS, otherwise the file is added truncated.
AddFiles(project_files, order, relevant_files, total_chars) ==
    IF order = <<>> \/ total_chars > MAX_CONTEXT_CHARS THEN relevant_files
    ELSE LET f == project_files[Head(order)]
             truncated == truncate_content(f.v, MAX_FILE_CONTENT_CHARS)
         IN  AddFiles(project_files, Tail(order), DictPut(relevant_files, f.k, truncated),
                      total_chars + Len(truncated))

\* filter_relevant_files(project_files, instruction, target_file): dicts are
\* the sequences of their items, in insertion order.
filter_relevant_files(project_files, instruction, target) ==
    IF project_files = <<>> THEN <<>>
    ELSE LET relevant_files ==
                 IF ~target.none /\ target.s # <<>>
                    /\ target.s \in KeysOf(project_files)
                 THEN <<Item(target.s, DictGet(JObj(project_files), target.s, <<>>))>>
                 ELSE <<>>
             cands == Candidates(project_files, relevant_files)
             sorted_files == SortedFiles(project_files, cands, instruction)
             files_to_add == Min(MAX_FILES_IN_CONTEXT - Len(relevant_files), Len(sorted_files))
         IN  AddFiles(project_files, SubSeq(sorted_files, 1, files_to_add), relevant_files,
                      TotalChars(relevant_files))

VARIABLES
    sel_files,        \* filter_relevant_files: project_files
    sel_instruction,  \* its instruction
    sel_target,       \* its target_file
    sel_out,          \* what it returned
    sel_pc            \* "input" before the call, "selected" after it

selVars == <<sel_files, sel_instruction, sel_target, sel_out, sel_pc>>

\* Bound of the selector's inputs: the number of project files.
MaxSelFiles == 12

Names ==
    << <<"a", ".", "p", "y">>, <<"b", ".", "j", "s">>, <<"c", ".", "p", "y">>,
       <<"d", ".", "j", "s">>, <<"e", ".", "p", "y">>, <<"f", ".", "j", "s">>,
       <<"g", ".", "p", "y">>, <<"h", ".", "j", "s">>, <<"i", ".", "p", "y">>,
       <<"j", ".", "j", "s">>, <<"k", ".", "p", "y">>, <<"l", ".", "j", "s">>,
       <<"m", ".", "p", "y">>, <<"n", ".", "j", "s">> >>
N_absent == <<"z", ".", "p", "y">>

Fill(n) == [i \in 1..n |-> "x"]
T_small == Fill(3)
T_big == Fill(4500)
T_bigger == Fill(6000)
T_huge == Fill(30000)

\* The shapes of project: every file small, every file above the per-file
\* limit, small and larger files in turn, and a huge file first.
Shapes == {"small", "big", "mixed", "huge_first"}
ContentAt(shape, k) ==
    CASE shape = "small" -> T_small
      [] shape = "big" -> T_big
      [] shape = "mixed" -> IF k % 2 = 0 THEN T_bigger ELSE T_small
      [] shape = "huge_first" -> IF k = 1 THEN T_huge ELSE T_big

Project(shape, n) == [k \in 1..n |-> Item(Names[k], ContentAt(shape, k))]

I_plain == <<"g", "o">>
I_ext == <<"e", "d", "i", "t", SP, ".", "p", "y", SP, "f", "i", "l", "e", "s">>
I_name == <<"f", "i", "x", SP, "d", ".", "j", "s", SP, "n", "o", "w">>
I_upper == <<"E", "d", "i", "t", SP, ".", "P", "Y", SP, "D", ".", "j", "s">>
Instructions == {I_plain, I_ext, I_name, I_upper}

SelIdle ==
    /\ sel_files = <<>>
    /\ sel_instruction = <<>>
    /\ sel_target = None
    /\ sel_out = <<>>
    /\ sel_pc = "idle"

SelInit ==
    /\ \E shape \in Shapes, n \in 0..MaxSelFiles :
         /\ sel_files = Project(shape, n)
         /\ sel_target \in {None, Some(Names[1]), Some(N_absent)}
                           \cup (IF n > 0 THEN {Some(Names[n])} ELSE {})
    /\ sel_instruction \in Instructions
    /\ sel_out = <<>>
    /\ sel_pc = "input"

\* relevant_files = filter_relevant_files(project_files, instruction, target_file)
Select ==
    /\ sel_pc = "input"
    /\ sel_out' = filter_relevant_files(sel_files, sel_instruction, sel_target)
    /\ sel_pc' = "selected"
    /\ UNCHANGED <<sel_files, sel_instruction, sel_target>>

(***************************************************************************)
(* The response recoverer on serialized plans                              *)
(***************************************************************************)
VARIABLES
    j_plan,    \* an EditPlan-shaped object
    j_text,    \* its JSON text, then the reply built around it
    j_parsed,  \* what try_parse_json made of the reply
    j_fixed,   \* what fix_json_fields made of the JSON text
    j_pc       \* "plan", "json", "wrapped", "recovered" or "repaired"

jsonVars == <<j_plan, j_text, j_parsed, j_fixed, j_pc>>

\* Bound of the recoverer's inputs: the length of a content string.
MaxContentLen == 3

ContentChars == {"a", QUOTE, BSLASH, NL, TICK}
Contents == UNION {[1..n -> ContentChars] : n \in 0..MaxContentLen}

JsonPlans ==
    {EditPlan(<<ModEntry(P_a, c)>>, <<>>) : c \in Contents}
    \cup {EditPlan(<<>>, <<CreEntry(P_a, c, FALSE)>>) : c \in Contents}

\* The prose around the fenced block.
Proses == { [before |-> <<>>, after |-> <<>>],
            [before |-> <<"O", "K", ":", NL>>, after |-> <<NL, "D", "o", "n", "e", ".">>] }

JsonIdle ==
    /\ j_plan = JObj(<<>>)
    /\ j_text = <<>>
    /\ j_parsed = [ok |-> FALSE, v |-> JNull]
    /\ j_fixed = <<>>
    /\ j_pc = "idle"

JsonInit ==
    /\ j_plan \in JsonPlans
    /\ j_text = <<>>
    /\ j_parsed = [ok |-> FALSE, v |-> JNull]
    /\ j_fixed = <<>>
    /\ j_pc = "plan"

\* json.dumps(plan)
Serialize ==
    /\ j_pc = "plan"
    /\ j_text' = Dumps(j_plan)
    /\ j_pc' = "json"
    /\ UNCHANGED <<j_plan, j_parsed, j_fixed>>

\* The JSON text is put between Markdown fences, with prose around them.
Wrap(prose) ==
    /\ j_pc = "json"
    /\ j_text' = prose.before \o FENCE_JSON \o <<NL>> \o j_text \o <<NL>> \o FENCE \o prose.after
    /\ j_pc' = "wrapped"
    /\ UNCHANGED <<j_plan, j_parsed, j_fixed>>

\* try_parse_json(reply)
Recover ==
    /\ j_pc = "wrapped"
    /\ j_parsed' = try_parse_json(j_text)
    /\ j_pc' = "recovered"
    /\ UNCHANGED <<j_plan, j_text, j_fixed>>

\* fix_json_fields(json_text) on the valid JSON text
Repair ==
    /\ j_pc = "json"
    /\ j_fixed' = fix_json_fields(j_text)
    /\ j_pc' = "repaired"
    /\ UNCHANGED <<j_plan, j_text, j_parsed>>

(***************************************************************************)
(* project_update on files long enough for the safety check                *)
(***************************************************************************)
\* The lengths of the file's prior content and of the new content proposed.
WarnOldLens == {100, 101, 200}
WarnNewLens == {0, 50, 51, 100, 150}

\* The project holds a.py, of one of the prior lengths, or no file.
WarnDisks == {<<>>} \cup {(P_a :> Fill(n)) : n \in WarnOldLens}

\* The plans: a.py replaced by a new content, a.py patched, and a creation.
WarnPlans ==
    {EditPlan(<<ModEntry(P_a, Fill(n))>>, <<>>) : n \in WarnNewLens}
    \cup { EditPlan(<<ModEntry(P_a, C_diff)>>, <<>>),
           EditPlan(<<>>, <<CreEntry(P_sub, C_b, FALSE)>>) }

WarnDecoded == {[reply |-> r, parsed |-> try_parse_json(r)] : r \in {Fenced(Dumps(p)) : p \in WarnPlans}}

WarnInit ==
    /\ disk \in WarnDisks
    /\ dirs = {}
    /\ files = scan_project(disk)
    /\ session = "running"
    /\ pc = "prompt"
    /\ updates = 0
    /\ NoLocals

(***************************************************************************)
(* truncate_content applied twice                                          *)
(***************************************************************************)
VARIABLES
    t_content,  \* truncate_content: content
    t_limit,    \* its limit
    t_once,     \* truncate_content(content, limit)
    t_twice,    \* truncate_content of that, with the same limit
    t_pc        \* "input", "once" or "twice"

truncVars == <<t_content, t_limit, t_once, t_twice, t_pc>>

\* Bounds of the inputs: the length of the content and the limit.
MaxTruncLen == 4
MaxLimit == 5

TruncChars == {"a", "b"}
TruncContents == UNION {[1..n -> TruncChars] : n \in 0..MaxTruncLen}

TruncIdle ==
    /\ t_content = <<>>
    /\ t_limit = 0
    /\ t_once = <<>>
    /\ t_twice = <<>>
    /\ t_pc = "idle"

TruncInit ==
    /\ t_content \in TruncContents
    /\ t_limit \in 0..MaxLimit
    /\ t_once = <<>>
    /\ t_twice = <<>>
    /\ t_pc = "input"

\* once = truncate_content(content, limit)
TruncateOnce ==
    /\ t_pc = "input"
    /\ t_once' = truncate_content(t_content, t_limit)
    /\ t_pc' = "once"
    /\ UNCHANGED <<t_content, t_limit, t_twice>>

\* twice = truncate_content(once, limit)
TruncateAgain ==
    /\ t_pc = "once"
    /\ t_twice' = truncate_content(t_once, t_limit)
    /\ t_pc' = "twice"
    /\ UNCHANGED <<t_content, t_limit, t_once>>

(***************************************************************************)
(* LoadingSpinner and the backend call (send_message, project_update)      *)
(***************************************************************************)
VARIABLES
    sp_cmd,          \* the command handled: "none", "chat" or "update"
    sp_pc,           \* where the main thread is
    done,            \* LoadingSpinner.done of each spinner
    spinner_thread,  \* LoadingSpinner.spinner_thread: "absent" (no spinner),
                     \* "unstarted", "running" or "finished"
    sp_frames,       \* the frames each spinner thread has printed
    sp_cmds          \* the commands handled so far

spinVars == <<sp_cmd, sp_pc, done, spinner_thread, sp_frames, sp_cmds>>

\* Bounds: the commands of a session and the frames a spinner prints.
MaxCommands == 2
MaxFrames == 1

\* The spinner of project_update ("outer") and that of send_message ("inner").
Spinners == {"outer", "inner"}
\* "chat" stands for every command that only calls send_message (chat,
\* bashcmd, free text); "update" is "project update".
Commands == {"chat", "update"}

Alive(s) == spinner_thread[s] = "running"

SpinIdle ==
    /\ sp_cmd = "none"
    /\ sp_pc = "idle"
    /\ done = [s \in Spinners |-> FALSE]
    /\ spinner_thread = [s \in Spinners |-> "absent"]
    /\ sp_frames = [s \in Spinners |-> 0]
    /\ sp_cmds = 0

SpinInit ==
    /\ sp_cmd = "none"
    /\ sp_pc = "prompt"
    /\ done = [s \in Spinners |-> FALSE]
    /\ spinner_thread = [s \in Spinners |-> "absent"]
    /\ sp_frames = [s \in Spinners |-> 0]
    /\ sp_cmds = 0

\* main() reads a command that calls the backend.
Command(c) ==
    /\ sp_pc = "prompt" /\ sp_cmds < MaxCommands
    /\ sp_cmd' = c
    /\ sp_cmds' = sp_cmds + 1
    /\ sp_pc' = IF c = "update" THEN "outer_new" ELSE "inner_new"
    /\ UNCHANGED <<done, spinner_thread, sp_frames>>

\* LoadingSpinner(): __init__ makes a Thread that is not started.
SpinnerNew(s) ==
    /\ sp_pc = s \o "_new"
    /\ done' = [done EXCEPT ![s] = FALSE]
    /\ spinner_thread' = [spinner_thread EXCEPT ![s] = "unstarted"]
    /\ sp_frames' = [sp_frames EXCEPT ![s] = 0]
    /\ sp_pc' = s \o "_start"
    /\ UNCHANGED <<sp_cmd, sp_cmds>>

\* start(): done is cleared and a new Thread is started.  After the spinner of
\* project_update comes send_message, after that of send_message the call of
\* run_AI_command.
SpinnerStart(s) ==
    /\ sp_pc = s \o "_start"
    /\ done' = [done EXCEPT ![s] = FALSE]
    /\ spinner_thread' = [spinner_thread EXCEPT ![s] = "running"]
    /\ sp_pc' = IF s = "outer" THEN "inner_new" ELSE "call"
    /\ UNCHANGED <<sp_cmd, sp_frames, sp_cmds>>

\* run_AI_command returns the reply (or an error text), or raises what it does
\* not catch; nothing between it and the end of main() catches that.
CallOutcomes == {"returned", "raised"}
CallEnd(outcome) ==
    /\ sp_pc = "call"
    /\ sp_pc' = IF outcome = "returned" THEN "inner_stop" ELSE "crashed"
    /\ UNCHANGED <<sp_cmd, done, spinner_thread, sp_frames, sp_cmds>>

\* Where the main thread goes on when stop() of a spinner has returned.
AfterStop(s) == IF s = "inner" /\ sp_cmd = "update" THEN "outer_stop" ELSE "prompt"

\* stop(): self.done = True
StopFlag(s) ==
    /\ sp_pc = s \o "_stop"
    /\ done' = [done EXCEPT ![s] = TRUE]
    /\ sp_pc' = s \o "_alive"
    /\ UNCHANGED <<sp_cmd, spinner_thread, sp_frames, sp_cmds>>

\* stop(): if self.spinner_thread.is_alive(): ... else it returns.
StopIsAlive(s) ==
    /\ sp_pc = s \o "_alive"
    /\ sp_pc' = IF Alive(s) THEN s \o "_join" ELSE AfterStop(s)
    /\ UNCHANGED <<sp_cmd, done, spinner_thread, sp_frames, sp_cmds>>

\* stop(): self.spinner_thread.join() returns once the thread has ended.
StopJoin(s) ==
    /\ sp_pc = s \o "_join"
    /\ ~Alive(s)
    /\ sp_pc' = AfterStop(s)
    /\ UNCHANGED <<sp_cmd, done, spinner_thread, sp_frames, sp_cmds>>

\* _spin: while not self.done, a frame is printed.
Spin(s) ==
    /\ Alive(s) /\ ~done[s]
    /\ sp_frames[s] < MaxFrames
    /\ sp_frames' = [sp_frames EXCEPT ![s] = @ + 1]
    /\ UNCHANGED <<sp_cmd, sp_pc, done, spinner_thread, sp_cmds>>

\* _spin: done is set, the loop and the thread end.
SpinExit(s) ==
    /\ Alive(s) /\ done[s]
    /\ spinner_thread' = [spinner_thread EXCEPT ![s] = "finished"]
    /\ UNCHANGED <<sp_cmd, sp_pc, done, sp_frames, sp_cmds>>

(***************************************************************************)
(* The specifications                                                      *)
(***************************************************************************)
vars == <<mainVars, selVars, jsonVars, truncVars, spinVars>>

\* What each specification leaves alone.
notMain == <<selVars, jsonVars, truncVars, spinVars>>
notSel == <<mainVars, jsonVars, truncVars, spinVars>>
notJson == <<mainVars, selVars, truncVars, spinVars>>
notTrunc == <<mainVars, selVars, jsonVars, spinVars>>
notSpin == <<mainVars, selVars, jsonVars, truncVars>>

MainIdle ==
    /\ disk = <<>>
    /\ dirs = {}
    /\ files = <<>>
    /\ session = "idle"
    /\ pc = "idle"
    /\ updates = 0
    /\ NoLocals

\* The session.
Init == MainInit /\ SelIdle /\ JsonIdle /\ TruncIdle /\ SpinIdle
Next ==
    \/ Refresh /\ UNCHANGED notMain
    \/ Quit /\ UNCHANGED notMain
    \/ (\E matches \in Matches : UpdateBegin(matches)) /\ UNCHANGED notMain
    \/ (\E d \in Decoded : UpdateCall(d)) /\ UNCHANGED notMain
    \/ ModBegin /\ UNCHANGED notMain
    \/ ModRoute /\ UNCHANGED notMain
    \/ (\E answer \in Answers : ModConfirm(answer)) /\ UNCHANGED notMain
    \/ CreBegin /\ UNCHANGED notMain
    \/ (\E answer \in Answers : CreConfirm(answer)) /\ UNCHANGED notMain
Spec == Init /\ [][Next]_vars

\* filter_relevant_files over bounded inputs.
SelInitial == SelInit /\ MainIdle /\ JsonIdle /\ TruncIdle /\ SpinIdle
SelNext == Select /\ UNCHANGED notSel
SelSpec == SelInitial /\ [][SelNext]_vars

\* The recoverer over bounded plans.
JsonInitial == JsonInit /\ MainIdle /\ SelIdle /\ TruncIdle /\ SpinIdle
JsonNext ==
    \/ Serialize /\ UNCHANGED notJson
    \/ (\E prose \in Proses : Wrap(prose)) /\ UNCHANGED notJson
    \/ Recover /\ UNCHANGED notJson
    \/ Repair /\ UNCHANGED notJson
JsonSpec == JsonInitial /\ [][JsonNext]_vars

\* The session on files long enough for the safety check.
WarnInitial == WarnInit /\ SelIdle /\ JsonIdle /\ TruncIdle /\ SpinIdle
WarnNext ==
    \/ Refresh /\ UNCHANGED notMain
    \/ Quit /\ UNCHANGED notMain
    \/ (\E matches \in Matches : UpdateBegin(matches)) /\ UNCHANGED notMain
    \/ (\E d \in WarnDecoded : UpdateCall(d)) /\ UNCHANGED notMain
    \/ ModBegin /\ UNCHANGED notMain
    \/ ModRoute /\ UNCHANGED notMain
    \/ (\E answer \in Answers : ModConfirm(answer)) /\ UNCHANGED notMain
    \/ CreBegin /\ UNCHANGED notMain
    \/ (\E answer \in Answers : CreConfirm(answer)) /\ UNCHANGED notMain
WarnSpec == WarnInitial /\ [][WarnNext]_vars

\* truncate_content over bounded contents and limits.
TruncInitial == TruncInit /\ MainIdle /\ SelIdle /\ JsonIdle /\ SpinIdle
TruncNext ==
    \/ TruncateOnce /\ UNCHANGED notTrunc
    \/ TruncateAgain /\ UNCHANGED notTrunc
TruncSpec == TruncInitial /\ [][TruncNext]_vars

\* The main thread and the spinner threads around a backend call.
SpinInitial == SpinInit /\ MainIdle /\ SelIdle /\ JsonIdle /\ TruncIdle
SpinNext ==
    \/ (\E c \in Commands : Command(c)) /\ UNCHANGED notSpin
    \/ (\E s \in Spinners : SpinnerNew(s)) /\ UNCHANGED notSpin
    \/ (\E s \in Spinners : SpinnerStart(s)) /\ UNCHANGED notSpin
    \/ (\E outcome \in CallOutcomes : CallEnd(outcome)) /\ UNCHANGED notSpin
    \/ (\E s \in Spinners : StopFlag(s)) /\ UNCHANGED notSpin
    \/ (\E s \in Spinners : StopIsAlive(s)) /\ UNCHANGED notSpin
    \/ (\E s \in Spinners : StopJoin(s)) /\ UNCHANGED notSpin
    \/ (\E s \in Spinners : Spin(s)) /\ UNCHANGED notSpin
    \/ (\E s \in Spinners : SpinExit(s)) /\ UNCHANGED notSpin
SpinSpec == SpinInitial /\ [][SpinNext]_vars

(***************************************************************************)
(* Properties of project_update                                            *)
(***************************************************************************)
InUpdate == pc \in {"mods", "mod_route", "mod_confirm", "cres", "cre_confirm"}
AtConfirm == pc \in {"mod_confirm", "cre_confirm"}
LastOutcome(l) == IF l = <<>> THEN "" ELSE l[Len(l)].outcome
Changed(d1, d2) ==
    {f \in DOMAIN d1 \cup DOMAIN d2 :
        f \notin DOMAIN d1 \/ f \notin DOMAIN d2 \/ d1[f] # d2[f]}

\* C1: while project_update handles a plan, a file on disk changes only in the
\* step that answers "y" at the confirmation prompt of the entry naming that
\* file; in particular an entry that is declined, or whose patch fails, changes
\* nothing on disk.
C1_DiskChangesOnlyOnYes ==
    [][ (pc # "prompt" /\ disk' # disk)
          => (AtConfirm /\ confirm' = "y" /\ Changed(disk, disk') \subseteq {filename}) ]_vars

\* The decoded reply is an EditPlan: a list of modification objects (filename
\* and new_content text or absent) and a list of creation objects (filename
\* text or absent, content text).
TextOrAbsent(o, k) == DictGet(o, k, JNull).t \in {"str", "null"}
IsEditPlan(v) ==
    /\ v.t = "obj"
    /\ DictGet(v, K_modifications, JArr(<<>>)).t = "arr"
    /\ DictGet(v, K_creations, JArr(<<>>)).t = "arr"
    /\ \A k \in 1..Len(DictGet(v, K_modifications, JArr(<<>>)).a) :
         LET e == DictGet(v, K_modifications, JArr(<<>>)).a[k]
         IN  e.t = "obj" /\ TextOrAbsent(e, K_filename) /\ TextOrAbsent(e, K_new_content)
    /\ \A k \in 1..Len(DictGet(v, K_creations, JArr(<<>>)).a) :
         LET e == DictGet(v, K_creations, JArr(<<>>)).a[k]
         IN  e.t = "obj" /\ TextOrAbsent(e, K_filename)
             /\ DictGet(e, K_content, JStr(<<>>)).t = "str"

\* C2: the entries of an EditPlan are handled in list order, the modifications
\* then the creations, none left out: whatever became of the entries before
\* (patch failure, write or mkdir failure, decline, skip), the log holds exactly
\* the entries before the current one, in order, the update never ends the
\* session, and when project_update is about to return every entry is logged.
C2_EntriesInOrder ==
    (InUpdate /\ IsEditPlan(data)) =>
        LET nm == Len(modifications.a)
            nc == Len(creations.a)
        IN  /\ session = "running"
            /\ Len(log) = IF pc \in {"mods", "mod_route", "mod_confirm"}
                          THEN idx - 1 ELSE nm + idx - 1
            /\ \A k \in 1..Len(log) :
                 /\ log[k].kind = IF k <= nm THEN "mod" ELSE "cre"
                 /\ log[k].i = IF k <= nm THEN k ELSE k - nm
                 /\ log[k].outcome \in {"skipped", "patch_failed", "cancelled", "committed", "failed"}
            /\ idx <= (IF pc \in {"mods", "mod_route", "mod_confirm"} THEN nm ELSE nc) + 1
            /\ AtConfirm \/ pc = "mod_route" => Len(log) < nm + nc

\* An entry was handled after an earlier entry's patch or write failed or was
\* declined.
C2_Witness ==
    /\ Len(log) >= 2
    /\ log[1].outcome \in {"patch_failed", "failed", "cancelled"}
    /\ log[2].outcome = "committed"

\* The step is the commit of a file: "y" was answered for a modification or a
\* file creation.
FileCommitStep == AtConfirm /\ ~(pc = "cre_confirm" /\ is_directory) /\ confirm' = "y"

\* C3: after a confirmed write that succeeds, the index entry of the file is
\* the content written to disk; after one that fails, the entry is logged as
\* failed and the index is as it was.
C3_IndexFollowsWrite ==
    [][ FileCommitStep =>
          \/ /\ LastOutcome(log') = "committed"
             /\ filename \in DOMAIN disk' /\ filename \in DOMAIN files'
             /\ disk'[filename] = new_content.s
             /\ files'[filename] = disk'[filename]
          \/ /\ LastOutcome(log') = "failed"
             /\ files' = files ]_vars

\* A confirmed write failed, truncating the file, and the index kept the
\* content it had.
C3_Witness ==
    /\ LastOutcome(log) = "failed" /\ confirm = "y"
    /\ filename \in DOMAIN disk /\ disk[filename] = <<>>
    /\ filename \in DOMAIN files /\ files[filename] = C_a

\* The step loads into the index, from disk, a file the index does not hold:
\* get_file during target identification or the lookup of the prior content.
LoadStep ==
    /\ (pc = "prompt" /\ pc' = "call") \/ (pc = "mods" /\ pc' = "mod_route")
    /\ \E f \in DOMAIN disk \ DOMAIN files :
         /\ f = IF pc = "prompt" THEN target_file'.s ELSE filename'
         /\ files' = (f :> disk[f]) @@ files

CommitOrRescan ==
    \/ AtConfirm /\ LastOutcome(log') = "committed"
    \/ pc = "prompt" /\ pc' = "prompt"

\* C4 as stated: the index changes only in a successful commit or a re-scan.
C4_OnlyCommitOrRescan == [][ files' # files => CommitOrRescan ]_vars

\* C4 as amended: the index changes only in a successful commit, a re-scan, or
\* when get_file loads from disk a file the index does not hold (which adds
\* that key and changes no other); routing, previewing, skipping and
\* cancelling leave it unchanged.
C4_OnlyCommitRescanOrLoad == [][ files' # files => (CommitOrRescan \/ LoadStep) ]_vars

\* The lookup of an entry's prior content loaded an unscanned file.
C4_Witness ==
    /\ pc = "mod_route" /\ target_file.none
    /\ filename = P_nm /\ P_nm \in DOMAIN files /\ files[P_nm] = disk[P_nm]

\* C5: every key of the index is a path inside the project root, with no
\* ignored extension and no ignored directory.
C5_IndexKeysInScope ==
    \A f \in DOMAIN files :
        /\ InsideRoot(f)
        /\ Splitext1(f) \notin IGNORED_EXTENSIONS
        /\ PathDirs(f) \cap IGNORED_DIRS = {}

\* C6: no error met while a project update is handled ends the session.
C6_NoErrorEndsSession == session # "crashed"

\* C12: a modification that reaches the preview goes on to the confirmation
\* prompt, warned or not, and the warning has been emitted exactly when the
\* prior content is longer than 100 and the new content is shorter than half
\* of it (200 -> 50 warns; 200 -> 100, 200 -> 150 and a prior length of 100 do
\* not); at the prompt a "y" commits the new content, warned or not.
C12_WarningExactlyWhenDestructive ==
    /\ [][ (pc = "mod_route" /\ session' = "running" /\ pc' # "mods") =>
             /\ pc' = "mod_confirm"
             /\ warned' = (Len(old_content) > 100 /\ 2 * Len(new_content'.s) < Len(old_content))
             /\ (Len(old_content) = 200 /\ Len(new_content'.s) = 50) => warned'
             /\ (Len(old_content) = 200 /\ Len(new_content'.s) \in {100, 150}) => ~warned'
             /\ Len(old_content) <= 100 => ~warned' ]_vars
    /\ [](pc = "mod_confirm" =>
            ENABLED (/\ ModConfirm("y")
                     /\ LastOutcome(log') = "committed"
                     /\ disk'[filename] = new_content.s))

\* A change from 200 characters to 50 was warned about and then committed.
C12_Witness ==
    /\ warned /\ confirm = "y" /\ LastOutcome(log) = "committed"
    /\ Len(old_content) = 200 /\ Len(new_content.s) = 50
    /\ disk[filename] = new_content.s

(***************************************************************************)
(* Properties of the selector and the recoverer                            *)
(***************************************************************************)
\* C7: what filter_relevant_files returns holds at most MAX_CONTEXT_CHARS
\* characters in all and at most MAX_FILES_IN_CONTEXT files.
C7_SelectorBudgets ==
    sel_pc = "selected" =>
        /\ TotalChars(sel_out) <= MAX_CONTEXT_CHARS
        /\ Len(sel_out) <= MAX_FILES_IN_CONTEXT

TargetGiven == ~sel_target.none /\ sel_target.s \in KeysOf(sel_files)

\* C8: a target file that is a key of the files is in the output, as its first
\* entry and with the content it has in the files, untruncated.
C8_TargetFirstUntruncated ==
    (sel_pc = "selected" /\ TargetGiven) =>
        /\ sel_out # <<>>
        /\ sel_out[1].k = sel_target.s
        /\ sel_out[1].v = DictGet(JObj(sel_files), sel_target.s, <<>>)
        /\ \A k \in 2..Len(sel_out) : sel_out[k].k # sel_target.s

\* The target, the last of more files than the count budget admits and longer
\* than the per-file limit, was selected beside truncated files.
C8_Witness ==
    /\ sel_pc = "selected" /\ TargetGiven
    /\ Len(sel_files) > MAX_FILES_IN_CONTEXT
    /\ sel_target.s = sel_files[Len(sel_files)].k
    /\ Len(sel_out[1].v) > MAX_FILE_CONTENT_CHARS
    /\ Len(sel_out) > 1

\* The position of a file in the files, its score, and the output without the
\* target file.
PosOf(name) == CHOOSE k \in 1..Len(sel_files) : sel_files[k].k = name
ScoreOf(name) == FileScore(name, sel_files[PosOf(name)].v, sel_instruction)
Before(f, g) == ScoreOf(f) > ScoreOf(g) \/ (ScoreOf(f) = ScoreOf(g) /\ PosOf(f) < PosOf(g))
NonTargetOut == IF TargetGiven THEN Tail(sel_out) ELSE sel_out
LeftOut == {n \in KeysOf(sel_files) : n \notin KeysOf(sel_out)}

\* C13: the non-target files of the output are files of the project, each with
\* its truncated content, in descending order of score (files of equal score
\* in the order of the project), and every non-target file left out ranks
\* after every one selected: none left out scores strictly higher than one
\* selected.
C13_RankingPrefix ==
    sel_pc = "selected" =>
        /\ \A i \in 1..Len(NonTargetOut) :
             /\ NonTargetOut[i].k \in KeysOf(sel_files)
             /\ NonTargetOut[i].v = truncate_content(sel_files[PosOf(NonTargetOut[i].k)].v,
                                                     MAX_FILE_CONTENT_CHARS)
        /\ \A i, j \in 1..Len(NonTargetOut) :
             i < j => Before(NonTargetOut[i].k, NonTargetOut[j].k)
        /\ \A g \in LeftOut : \A i \in 1..Len(NonTargetOut) :
             /\ Before(NonTargetOut[i].k, g)
             /\ ScoreOf(g) <= ScoreOf(NonTargetOut[i].k)

\* Files were left out, and the files selected are not in the order of the
\* project: a later file of higher score precedes an earlier one.
C13_Witness ==
    /\ sel_pc = "selected"
    /\ LeftOut # {}
    /\ \E i, j \in 1..Len(NonTargetOut) :
         /\ i < j
         /\ PosOf(NonTargetOut[i].k) > PosOf(NonTargetOut[j].k)
         /\ ScoreOf(NonTargetOut[i].k) > ScoreOf(NonTargetOut[j].k)

\* C9: try_parse_json of the fenced reply gives back the plan that was
\* serialized.
C9_RecoveryRoundTrip ==
    j_pc = "recovered" => (j_parsed.ok /\ j_parsed.v = j_plan)

\* C10: fix_json_fields leaves valid JSON text unchanged.
C10_RepairFixedPoint ==
    j_pc = "repaired" => (JsonLoads(j_text).ok /\ j_fixed = j_text)

\* C11: truncating twice with the same limit gives what truncating once gives,
\* for every content and every limit from 0 on.
C11_TruncationIdempotent ==
    t_pc = "twice" => t_twice = t_once

\* C14: at most one spinner thread is alive; one is alive only from the start
\* of its spinner to the return of its stop(), around the backend call; and
\* when the call is over and the main thread is back at the prompt, or the
\* session has ended, no spinner thread is running.
C14_OneSpinnerAroundCall ==
    /\ Cardinality({s \in Spinners : Alive(s)}) <= 1
    /\ (\E s \in Spinners : Alive(s)) => sp_pc \notin {"prompt", "crashed"}

====
